---------------------------- MODULE Spec2Model ----------------------------
(***************************************************************************)
(* Pedersen blinding Sigma proof (sigma_valid_pedersen_blind.rs) over the  *)
(* curve abstraction of elliptic/curves/traits.rs.                         *)
(*                                                                         *)
(* The curve group is cyclic of order Order.  A point is represented by    *)
(* its index k (the point k*G), a scalar by its representative in          *)
(* 0..Order-1.  The x coordinate does not tell P from -P, which the        *)
(* representation keeps: x_coord(k) = x_coord(Order - k).                  *)
(***************************************************************************)
EXTENDS Integers, Sequences, FiniteSets, TLC

\* Group order of the scaled-down curve.
Order == 7
\* Largest-plus-one input of the determinism scenario (SpecDet).
DetMax == 3

Scalars == 0 .. (Order - 1)
Points == 0 .. (Order - 1)

VARIABLES
    proof,      \* the PedersenBlindingProof value at hand, or NoProof
    wit,        \* prover's inputs and nonce [m, r, s] of the proof, or NoWit
    res,        \* result of the last verify on the proof at hand
    op,         \* name of the last operation
    tamper,     \* which field of the proof was overwritten after it was made
    origRes,    \* verify's result on the proof before the overwrite
    pin,        \* first proof ever verified, with its result
    a, b,       \* scalars operated on by the ECScalar conveniences
    p, q,       \* points operated on by the ECPoint conveniences
    out,        \* value returned by the last pure operation
    old         \* a, b, p, q as they were before the last operation

vars == <<proof, wit, res, op, tamper, origRes, pin, a, b, p, q, out, old>>
proofVars == <<proof, wit, res, tamper, origRes, pin>>
arithVars == <<a, b, p, q, out, old>>

NoProof == [none |-> TRUE]
NoWit == [none |-> TRUE]
NoPin == [none |-> TRUE]
NoOut == Order

-----------------------------------------------------------------------------
(* ECScalar: arithmetic modulo the curve order *)

from_big_int(n) == n % Order
to_big_int(x) == x
add(x, y) == (x + y) % Order
mul(x, y) == (x * y) % Order
sub(x, y) == (x - y) % Order
neg(x) == (0 - x) % Order

(* ECPoint: the group, its two generators, the x coordinate *)

generator == 1
base_point2 == 3
scalar_mul(P, k) == (P * k) % Order
add_point(P, Q) == (P + Q) % Order
sub_point(P, Q) == (P - Q) % Order
neg_point(P) == (0 - P) % Order
get_x_coor_as_big_int(P) == IF P = 0 THEN 0 ELSE IF P <= Order - P THEN P ELSE Order - P

(* Hash primitive: a deterministic digest of an ordered list of integers *)

RECURSIVE HashFold(_, _)
HashFold(acc, xs) ==
    IF xs = <<>> THEN acc
    ELSE HashFold((acc * 31 + Head(xs) + 7) % 257, Tail(xs))

create_hash(xs) == HashFold(5, xs)

(* Commitment primitive: message*G + randomness*H *)

create_commitment_with_user_defined_randomness(message, randomness) ==
    add_point(scalar_mul(generator, from_big_int(message)),
              scalar_mul(base_point2, from_big_int(randomness)))

-----------------------------------------------------------------------------
(* PedersenBlindingProof: prove *)

\* prove with the response computed as s - e*r
prove_sub(m, r, s) ==
    LET h == base_point2
        A == scalar_mul(h, s)
        com == create_commitment_with_user_defined_randomness(to_big_int(m), to_big_int(r))
        G == generator
        challenge == create_hash(<<get_x_coor_as_big_int(G),
                                   get_x_coor_as_big_int(base_point2),
                                   get_x_coor_as_big_int(com),
                                   get_x_coor_as_big_int(A),
                                   to_big_int(m)>>)
        e == from_big_int(challenge)
        er == mul(e, r)
        z == sub(s, er)
    IN  [e |-> e, m |-> m, A |-> A, com |-> com, z |-> z]

\* prove with the nonce returned as the response
prove_leak_nonce(m, r, s) ==
    LET h == base_point2
        A == scalar_mul(h, s)
        com == create_commitment_with_user_defined_randomness(to_big_int(m), to_big_int(r))
        G == generator
        challenge == create_hash(<<get_x_coor_as_big_int(G),
                                   get_x_coor_as_big_int(base_point2),
                                   get_x_coor_as_big_int(com),
                                   get_x_coor_as_big_int(A),
                                   to_big_int(m)>>)
        e == from_big_int(challenge)
        z == s
    IN  [e |-> e, m |-> m, A |-> A, com |-> com, z |-> z]

\* prove hashing A_x before com_x
prove_swapped_hash(m, r, s) ==
    LET h == base_point2
        A == scalar_mul(h, s)
        com == create_commitment_with_user_defined_randomness(to_big_int(m), to_big_int(r))
        G == generator
        challenge == create_hash(<<get_x_coor_as_big_int(G),
                                   get_x_coor_as_big_int(base_point2),
                                   get_x_coor_as_big_int(A),
                                   get_x_coor_as_big_int(com),
                                   to_big_int(m)>>)
        e == from_big_int(challenge)
        er == mul(e, r)
        z == add(s, er)
    IN  [e |-> e, m |-> m, A |-> A, com |-> com, z |-> z]

\* s is the value ECScalar::new_random() returns
prove(m, r, s) ==
    LET h == base_point2
        A == scalar_mul(h, s)
        com == create_commitment_with_user_defined_randomness(to_big_int(m), to_big_int(r))
        G == generator
        challenge == create_hash(<<get_x_coor_as_big_int(G),
                                   get_x_coor_as_big_int(base_point2),
                                   get_x_coor_as_big_int(com),
                                   get_x_coor_as_big_int(A),
                                   to_big_int(m)>>)
        e == from_big_int(challenge)
        er == mul(e, r)
        z == add(s, er)
    IN  [e |-> e, m |-> m, A |-> A, com |-> com, z |-> z]

-----------------------------------------------------------------------------
(* PedersenBlindingProof: verify *)

\* verify trusting the challenge stored in the proof
verify_stored_e(pf) ==
    LET g == generator
        h == base_point2
        e == pf.e
        zH == scalar_mul(h, pf.z)
        mG == scalar_mul(g, pf.m)
        emG == scalar_mul(mG, e)
        lhs == add_point(zH, emG)
        com_clone == pf.com
        ecom == scalar_mul(com_clone, e)
        rhs == add_point(ecom, pf.A)
    IN  IF lhs = rhs THEN "Ok" ELSE "Err"

\* verify comparing z*H alone with e*com + A
verify_drop_emG(pf) ==
    LET g == generator
        h == base_point2
        challenge == create_hash(<<get_x_coor_as_big_int(g),
                                   get_x_coor_as_big_int(h),
                                   get_x_coor_as_big_int(pf.com),
                                   get_x_coor_as_big_int(pf.A),
                                   to_big_int(pf.m)>>)
        e == from_big_int(challenge)
        zH == scalar_mul(h, pf.z)
        lhs == zH
        com_clone == pf.com
        ecom == scalar_mul(com_clone, e)
        rhs == add_point(ecom, pf.A)
    IN  IF lhs = rhs THEN "Ok" ELSE "Err"

\* verify comparing with e*com, A left out
verify_skip_A(pf) ==
    LET g == generator
        h == base_point2
        challenge == create_hash(<<get_x_coor_as_big_int(g),
                                   get_x_coor_as_big_int(h),
                                   get_x_coor_as_big_int(pf.com),
                                   get_x_coor_as_big_int(pf.A),
                                   to_big_int(pf.m)>>)
        e == from_big_int(challenge)
        zH == scalar_mul(h, pf.z)
        mG == scalar_mul(g, pf.m)
        emG == scalar_mul(mG, e)
        lhs == add_point(zH, emG)
        com_clone == pf.com
        ecom == scalar_mul(com_clone, e)
        rhs == ecom
    IN  IF lhs = rhs THEN "Ok" ELSE "Err"

\* verify hashing (G_x, H_x, com_x, A_x) without m
verify_hash_without_m(pf) ==
    LET g == generator
        h == base_point2
        challenge == create_hash(<<get_x_coor_as_big_int(g),
                                   get_x_coor_as_big_int(h),
                                   get_x_coor_as_big_int(pf.com),
                                   get_x_coor_as_big_int(pf.A)>>)
        e == from_big_int(challenge)
        zH == scalar_mul(h, pf.z)
        mG == scalar_mul(g, pf.m)
        emG == scalar_mul(mG, e)
        lhs == add_point(zH, emG)
        com_clone == pf.com
        ecom == scalar_mul(com_clone, e)
        rhs == add_point(ecom, pf.A)
    IN  IF lhs = rhs THEN "Ok" ELSE "Err"

\* verify hashing (G_x, H_x, A_x, m) without com_x
verify_hash_without_com(pf) ==
    LET g == generator
        h == base_point2
        challenge == create_hash(<<get_x_coor_as_big_int(g),
                                   get_x_coor_as_big_int(h),
                                   get_x_coor_as_big_int(pf.A),
                                   to_big_int(pf.m)>>)
        e == from_big_int(challenge)
        zH == scalar_mul(h, pf.z)
        mG == scalar_mul(g, pf.m)
        emG == scalar_mul(mG, e)
        lhs == add_point(zH, emG)
        com_clone == pf.com
        ecom == scalar_mul(com_clone, e)
        rhs == add_point(ecom, pf.A)
    IN  IF lhs = rhs THEN "Ok" ELSE "Err"

verify(pf) ==
    LET g == generator
        h == base_point2
        challenge == create_hash(<<get_x_coor_as_big_int(g),
                                   get_x_coor_as_big_int(h),
                                   get_x_coor_as_big_int(pf.com),
                                   get_x_coor_as_big_int(pf.A),
                                   to_big_int(pf.m)>>)
        e == from_big_int(challenge)
        zH == scalar_mul(h, pf.z)
        mG == scalar_mul(g, pf.m)
        emG == scalar_mul(mG, e)
        lhs == add_point(zH, emG)
        com_clone == pf.com
        ecom == scalar_mul(com_clone, e)
        rhs == add_point(ecom, pf.A)
    IN  IF lhs = rhs THEN "Ok" ELSE "Err"

-----------------------------------------------------------------------------
(* Operations on the proof at hand *)

\* let pedersen_proof = PedersenBlindingProof::prove(&m, &r), the nonce s drawn
ProveWith(m, r, s) ==
    /\ proof' = prove(m, r, s)
    /\ wit' = [m |-> m, r |-> r, s |-> s, r2 |-> r]
    /\ res' = "none"
    /\ tamper' = "none"
    /\ origRes' = "none"
    /\ op' = "prove"
    /\ UNCHANGED pin
    /\ UNCHANGED arithVars

\* prove called on any two scalars
Prove ==
    /\ proof = NoProof
    /\ \E m, r, s \in Scalars : ProveWith(m, r, s)

\* prove called on scalars below DetMax
ProveSmall ==
    /\ proof = NoProof
    /\ \E m, r, s \in 0 .. (DetMax - 1) : ProveWith(m, r, s)

\* a proof value received from elsewhere: any five field values
Forge ==
    /\ proof = NoProof
    /\ \E e, m, z \in Scalars : \E A, com \in Points :
          proof' = [e |-> e, m |-> m, A |-> A, com |-> com, z |-> z]
    /\ wit' = NoWit
    /\ res' = "none"
    /\ tamper' = "none"
    /\ origRes' = "none"
    /\ op' = "forge"
    /\ UNCHANGED pin
    /\ UNCHANGED arithVars

\* the pub field m of a proof made by prove is overwritten
TamperM(m2) ==
    /\ proof /= NoProof
    /\ wit /= NoWit
    /\ tamper = "none"
    /\ m2 /= proof.m
    /\ proof' = [proof EXCEPT !.m = m2]
    /\ tamper' = "m"
    /\ origRes' = res
    /\ res' = "none"
    /\ op' = "tamper"
    /\ UNCHANGED <<wit, pin>>
    /\ UNCHANGED arithVars

\* the pub field com of a proof made by prove is overwritten by the
\* commitment to the same m under another randomness r2
TamperCom(r2) ==
    /\ proof /= NoProof
    /\ wit /= NoWit
    /\ tamper = "none"
    /\ r2 /= wit.r
    /\ proof' = [proof EXCEPT !.com =
                    create_commitment_with_user_defined_randomness(wit.m, r2)]
    /\ wit' = [wit EXCEPT !.r2 = r2]
    /\ tamper' = "com"
    /\ origRes' = res
    /\ res' = "none"
    /\ op' = "tamper"
    /\ UNCHANGED pin
    /\ UNCHANGED arithVars

\* the field e of a proof is overwritten
TamperE(e2) ==
    /\ proof /= NoProof
    /\ tamper = "none"
    /\ e2 /= proof.e
    /\ proof' = [proof EXCEPT !.e = e2]
    /\ tamper' = "e"
    /\ origRes' = res
    /\ res' = "none"
    /\ op' = "tamper"
    /\ UNCHANGED <<wit, pin>>
    /\ UNCHANGED arithVars

\* PedersenBlindingProof::verify(&proof): the proof is borrowed immutably
Verify ==
    /\ proof /= NoProof
    /\ res' = verify(proof)
    /\ op' = "verify"
    /\ UNCHANGED <<proof, wit, tamper, origRes, pin>>
    /\ UNCHANGED arithVars

\* verify writing the challenge it recomputed into the proof's e
VerifyRecord_stores_e ==
    /\ proof /= NoProof
    /\ res' = verify(proof)
    /\ proof' = [proof EXCEPT !.e = from_big_int(create_hash(
                    <<get_x_coor_as_big_int(generator),
                      get_x_coor_as_big_int(base_point2),
                      get_x_coor_as_big_int(proof.com),
                      get_x_coor_as_big_int(proof.A),
                      to_big_int(proof.m)>>))]
    /\ pin' = IF pin = NoPin
                THEN [proof |-> proof, res |-> res', other |-> FALSE]
                ELSE IF pin.proof /= proof THEN [pin EXCEPT !.other = TRUE] ELSE pin
    /\ op' = "verify"
    /\ UNCHANGED <<wit, tamper, origRes>>
    /\ UNCHANGED arithVars

\* verify, the first call's proof and result remembered, and whether verify
\* has since been called on another proof
VerifyRecord ==
    /\ proof /= NoProof
    /\ res' = verify(proof)
    /\ pin' = IF pin = NoPin
                THEN [proof |-> proof, res |-> res', other |-> FALSE]
                ELSE IF pin.proof /= proof THEN [pin EXCEPT !.other = TRUE] ELSE pin
    /\ op' = "verify"
    /\ UNCHANGED <<proof, wit, tamper, origRes>>
    /\ UNCHANGED arithVars

\* the proof goes out of scope
Drop ==
    /\ proof /= NoProof
    /\ proof' = NoProof
    /\ wit' = NoWit
    /\ res' = "none"
    /\ tamper' = "none"
    /\ origRes' = "none"
    /\ op' = "drop"
    /\ UNCHANGED pin
    /\ UNCHANGED arithVars

-----------------------------------------------------------------------------
(* Specifications *)

InitProof ==
    /\ proof = NoProof
    /\ wit = NoWit
    /\ res = "none"
    /\ op = "init"
    /\ tamper = "none"
    /\ origRes = "none"
    /\ pin = NoPin

InitArithIdle ==
    /\ a = 0 /\ b = 0 /\ p = 0 /\ q = 0
    /\ out = NoOut
    /\ old = [a |-> 0, b |-> 0, p |-> 0, q |-> 0]

Init == InitProof /\ InitArithIdle

\* an honest prover, a proof tampered with in one field, a verifier
Next ==
    \/ Prove
    \/ \E m2 \in Scalars : TamperM(m2)
    \/ \E r2 \in Scalars : TamperCom(r2)
    \/ Verify
    \/ Drop

Spec == Init /\ [][Next]_vars

\* a verifier handed arbitrary proof values
NextForge ==
    \/ Forge
    \/ \E e2 \in Scalars : TamperE(e2)
    \/ Verify
    \/ Drop

SpecForge == Init /\ [][NextForge]_vars

\* verify called again and again between other prove and verify calls
NextDet ==
    \/ ProveSmall
    \/ \E m2 \in Scalars : TamperM(m2)
    \/ VerifyRecord
    \/ Drop

SpecDet == Init /\ [][NextDet]_vars

-----------------------------------------------------------------------------
(* The mutating conveniences of ECScalar and ECPoint, and calls of the     *)
(* pure operations they are derived from.  a is self for the scalar        *)
(* operations and b the argument; p is self for the point operations, and  *)
(* the argument is q (a point) or b (a scalar).                            *)

\* sub_assign computing other - self
sub_assign_swapped ==
    /\ a' = sub(b, a)
    /\ old' = [a |-> a, b |-> b, p |-> p, q |-> q]
    /\ out' = NoOut
    /\ op' = "sub_assign"
    /\ UNCHANGED <<b, p, q>>
    /\ UNCHANGED proofVars

\* a.add_assign(&b): *self = self.add(other)
add_assign ==
    /\ a' = add(a, b)
    /\ old' = [a |-> a, b |-> b, p |-> p, q |-> q]
    /\ out' = NoOut
    /\ op' = "add_assign"
    /\ UNCHANGED <<b, p, q>>
    /\ UNCHANGED proofVars

\* a.mul_assign(&b): *self = self.mul(other)
mul_assign ==
    /\ a' = mul(a, b)
    /\ old' = [a |-> a, b |-> b, p |-> p, q |-> q]
    /\ out' = NoOut
    /\ op' = "mul_assign"
    /\ UNCHANGED <<b, p, q>>
    /\ UNCHANGED proofVars

\* a.sub_assign(&b): *self = self.sub(other)
sub_assign ==
    /\ a' = sub(a, b)
    /\ old' = [a |-> a, b |-> b, p |-> p, q |-> q]
    /\ out' = NoOut
    /\ op' = "sub_assign"
    /\ UNCHANGED <<b, p, q>>
    /\ UNCHANGED proofVars

\* a.neg_assign(): *self = self.neg()
neg_assign ==
    /\ a' = neg(a)
    /\ old' = [a |-> a, b |-> b, p |-> p, q |-> q]
    /\ out' = NoOut
    /\ op' = "neg_assign"
    /\ UNCHANGED <<b, p, q>>
    /\ UNCHANGED proofVars

\* p.scalar_mul_assign(&b): *self = self.scalar_mul(scalar)
scalar_mul_assign ==
    /\ p' = scalar_mul(p, b)
    /\ old' = [a |-> a, b |-> b, p |-> p, q |-> q]
    /\ out' = NoOut
    /\ op' = "scalar_mul_assign"
    /\ UNCHANGED <<a, b, q>>
    /\ UNCHANGED proofVars

\* p.add_point_assign(&q): *self = self.add_point(other)
add_point_assign ==
    /\ p' = add_point(p, q)
    /\ old' = [a |-> a, b |-> b, p |-> p, q |-> q]
    /\ out' = NoOut
    /\ op' = "add_point_assign"
    /\ UNCHANGED <<a, b, q>>
    /\ UNCHANGED proofVars

\* p.sub_point_assign(&q): *self = self.sub_point(other)
sub_point_assign ==
    /\ p' = sub_point(p, q)
    /\ old' = [a |-> a, b |-> b, p |-> p, q |-> q]
    /\ out' = NoOut
    /\ op' = "sub_point_assign"
    /\ UNCHANGED <<a, b, q>>
    /\ UNCHANGED proofVars

\* p.neg_point_assign(): *self = self.neg_point()
neg_point_assign ==
    /\ p' = neg_point(p)
    /\ old' = [a |-> a, b |-> b, p |-> p, q |-> q]
    /\ out' = NoOut
    /\ op' = "neg_point_assign"
    /\ UNCHANGED <<a, b, q>>
    /\ UNCHANGED proofVars

\* a.add(&b): fn add(&self, other: &Self) -> Self
call_add ==
    /\ out' = add(a, b)
    /\ old' = [a |-> a, b |-> b, p |-> p, q |-> q]
    /\ op' = "add"
    /\ UNCHANGED <<a, b, p, q>>
    /\ UNCHANGED proofVars

\* a.mul(&b)
call_mul ==
    /\ out' = mul(a, b)
    /\ old' = [a |-> a, b |-> b, p |-> p, q |-> q]
    /\ op' = "mul"
    /\ UNCHANGED <<a, b, p, q>>
    /\ UNCHANGED proofVars

\* a.sub(&b)
call_sub ==
    /\ out' = sub(a, b)
    /\ old' = [a |-> a, b |-> b, p |-> p, q |-> q]
    /\ op' = "sub"
    /\ UNCHANGED <<a, b, p, q>>
    /\ UNCHANGED proofVars

\* a.neg()
call_neg ==
    /\ out' = neg(a)
    /\ old' = [a |-> a, b |-> b, p |-> p, q |-> q]
    /\ op' = "neg"
    /\ UNCHANGED <<a, b, p, q>>
    /\ UNCHANGED proofVars

\* p.scalar_mul(&b)
call_scalar_mul ==
    /\ out' = scalar_mul(p, b)
    /\ old' = [a |-> a, b |-> b, p |-> p, q |-> q]
    /\ op' = "scalar_mul"
    /\ UNCHANGED <<a, b, p, q>>
    /\ UNCHANGED proofVars

\* p.add_point(&q)
call_add_point ==
    /\ out' = add_point(p, q)
    /\ old' = [a |-> a, b |-> b, p |-> p, q |-> q]
    /\ op' = "add_point"
    /\ UNCHANGED <<a, b, p, q>>
    /\ UNCHANGED proofVars

\* p.sub_point(&q)
call_sub_point ==
    /\ out' = sub_point(p, q)
    /\ old' = [a |-> a, b |-> b, p |-> p, q |-> q]
    /\ op' = "sub_point"
    /\ UNCHANGED <<a, b, p, q>>
    /\ UNCHANGED proofVars

\* p.neg_point()
call_neg_point ==
    /\ out' = neg_point(p)
    /\ old' = [a |-> a, b |-> b, p |-> p, q |-> q]
    /\ op' = "neg_point"
    /\ UNCHANGED <<a, b, p, q>>
    /\ UNCHANGED proofVars

InitArith ==
    /\ InitProof
    /\ a \in Scalars /\ b \in Scalars
    /\ p \in Points /\ q \in Points
    /\ out = NoOut
    /\ old = [a |-> a, b |-> b, p |-> p, q |-> q]

NextArith ==
    \/ add_assign \/ mul_assign \/ sub_assign \/ neg_assign
    \/ scalar_mul_assign \/ add_point_assign \/ sub_point_assign \/ neg_point_assign
    \/ call_add \/ call_mul \/ call_sub \/ call_neg
    \/ call_scalar_mul \/ call_add_point \/ call_sub_point \/ call_neg_point

SpecArith == InitArith /\ [][NextArith]_vars

-----------------------------------------------------------------------------
(* Properties.  G, H and the challenge are restated here in plain integer  *)
(* arithmetic on point indices, apart from prove and verify.               *)

G == generator
H == base_point2

\* the challenge hash(G_x, H_x, com_x, A_x, m) reduced modulo the order
Challenge(com, A, m) ==
    create_hash(<<get_x_coor_as_big_int(G), get_x_coor_as_big_int(H),
                  get_x_coor_as_big_int(com), get_x_coor_as_big_int(A), m>>) % Order

\* e': the challenge recomputed from the fields of a proof
Recomputed(pf) == Challenge(pf.com, pf.A, pf.m)

\* the proof at hand came out of prove and no field was overwritten since
Honest == wit /= NoWit /\ tamper = "none"

\* the challenge prove derived for the inputs and nonce in wit
HonestE == Challenge((wit.m * G + wit.r * H) % Order, (wit.s * H) % Order, wit.m)

\* C1: completeness - verify on the proof prove(m, r) returned, whatever
\* the scalars m, r and the nonce s, returns Ok.
C1_Completeness == (Honest /\ res /= "none") => res = "Ok"

C1_Witness ==
    /\ Honest /\ op = "verify" /\ res = "Ok"
    /\ wit.r /= 0 /\ wit.s /= 0 /\ proof.e /= 0

\* C2: verify returns Ok exactly when z*H + e'*(m*G) = e'*com + A for the
\* recomputed challenge e', Err in every other case, and nothing else.
C2_VerifyOkIffEquation ==
    res /= "none" =>
        LET e1 == Recomputed(proof)
            holds == (proof.z * H + e1 * (proof.m * G)) % Order
                        = (e1 * proof.com + proof.A) % Order
        IN  /\ res \in {"Ok", "Err"}
            /\ res = "Ok" <=> holds

C2_Witness ==
    /\ op = "verify" /\ wit = NoWit /\ tamper = "none"
    /\ res = "Ok" /\ proof.e /= Recomputed(proof)

C2_WitnessErr ==
    /\ op = "verify" /\ wit = NoWit /\ tamper = "none"
    /\ res = "Err" /\ proof.e = Recomputed(proof)

\* C3: two proofs that differ only in the stored e get the same result
\* from verify.
C3_StoredEIgnored ==
    (tamper = "e" /\ origRes /= "none" /\ res /= "none") => res = origRes

C3_Witness ==
    /\ tamper = "e" /\ op = "verify" /\ origRes = "Ok" /\ res = "Ok"
    /\ proof.e /= Recomputed(proof)

C3_WitnessErr ==
    /\ tamper = "e" /\ op = "verify" /\ origRes = "Err" /\ res = "Err"
    /\ proof.e = Recomputed(proof)

C6_NoFieldEqualsSecret ==
    Honest => /\ proof.e \notin {wit.r, wit.s}
              /\ proof.m \notin {wit.r, wit.s}
              /\ proof.z \notin {wit.r, wit.s}

\* C6 as amended: z equals the nonce s exactly when e*r = 0 modulo the
\* order, z equals r exactly when s = r - e*r modulo the order, and the
\* field m equals r or s exactly when the input m does.
C6_SecretOnlyByCoincidence ==
    Honest =>
        /\ proof.z = wit.s <=> (proof.e * wit.r) % Order = 0
        /\ proof.z = wit.r <=> wit.s = (wit.r - proof.e * wit.r) % Order
        /\ proof.m = wit.r <=> wit.m = wit.r
        /\ proof.m = wit.s <=> wit.m = wit.s

C6_Witness ==
    /\ Honest /\ op = "prove"
    /\ (proof.e * wit.r) % Order /= 0 /\ proof.z /= wit.s
    /\ proof.z /= wit.r /\ proof.m /= wit.r /\ proof.m /= wit.s

\* C7: prove(m, r) with nonce s returns A = s*H, com = m*G + r*H,
\* e = hash(G_x, H_x, com_x, A_x, m) mod order, z = (s + e*r) mod order and
\* m = m; the stored e is the challenge verify recomputes.
C7_ProveFields ==
    Honest =>
        /\ proof.A = (wit.s * H) % Order
        /\ proof.com = (wit.m * G + wit.r * H) % Order
        /\ proof.e = HonestE
        /\ proof.z = (wit.s + proof.e * wit.r) % Order
        /\ proof.m = wit.m
        /\ proof.e = Recomputed(proof)

C7_Witness ==
    /\ Honest /\ op = "prove"
    /\ get_x_coor_as_big_int(proof.A) /= get_x_coor_as_big_int(proof.com)
    /\ proof.e /= 0 /\ wit.r /= 0 /\ wit.s + proof.e * wit.r >= Order

\* C8: when com = m*G + r*H for the proof's m and some r, verify returns Ok
\* exactly when z*H = A + e'*(r*H), whatever A and z are.
C8_OkIffResponseForWitness ==
    res /= "none" =>
        \A r \in Scalars :
            proof.com = (proof.m * G + r * H) % Order =>
                (res = "Ok" <=>
                    (proof.z * H) % Order
                        = (proof.A + Recomputed(proof) * (r * H)) % Order)

C8_Witness ==
    /\ op = "verify" /\ wit = NoWit /\ res = "Ok"
    /\ \E r \in Scalars : /\ r /= 0
                          /\ proof.com = (proof.m * G + r * H) % Order
    /\ Recomputed(proof) /= 0 /\ proof.A /= 0 /\ proof.m /= 0

\* C9: each mutating convenience leaves in self what the pure operation
\* returns on the old self and the argument and changes nothing else; a
\* call of a pure operation changes neither operand.
C9_AssignIsPureStoredBack ==
    LET same(vs) == \A v \in vs :
            CASE v = "a" -> a = old.a
              [] v = "b" -> b = old.b
              [] v = "p" -> p = old.p
              [] v = "q" -> q = old.q
    IN  /\ op = "add_assign" => a = add(old.a, old.b) /\ same({"b", "p", "q"})
        /\ op = "mul_assign" => a = mul(old.a, old.b) /\ same({"b", "p", "q"})
        /\ op = "sub_assign" => a = sub(old.a, old.b) /\ same({"b", "p", "q"})
        /\ op = "neg_assign" => a = neg(old.a) /\ same({"b", "p", "q"})
        /\ op = "scalar_mul_assign" =>
              p = scalar_mul(old.p, old.b) /\ same({"a", "b", "q"})
        /\ op = "add_point_assign" =>
              p = add_point(old.p, old.q) /\ same({"a", "b", "q"})
        /\ op = "sub_point_assign" =>
              p = sub_point(old.p, old.q) /\ same({"a", "b", "q"})
        /\ op = "neg_point_assign" => p = neg_point(old.p) /\ same({"a", "b", "q"})
        /\ op \in {"add", "mul", "sub", "neg",
                   "scalar_mul", "add_point", "sub_point", "neg_point"} =>
              same({"a", "b", "p", "q"})

C9_Witness ==
    /\ op = "sub_assign" /\ old.a /= old.b /\ old.a < old.b
    /\ a = (old.a - old.b) % Order /\ a /= old.a /\ b = old.b

C10_WitnessOk ==
    /\ op = "verify" /\ pin /= NoPin /\ pin.other
    /\ pin.proof = proof /\ pin.res = "Ok" /\ res = "Ok"

=============================================================================
